---- MODULE Spec2Model ----
(***************************************************************************)
(* Model of baselines/common/models.py: the name -> factory registry       *)
(* (get_network_builder), the seven factories and the network functions    *)
(* they return.  A tensor is modelled by its static shape and by the       *)
(* ordered trace of the layers that produced it.                           *)
(***************************************************************************)
EXTENDS Integers, Sequences, FiniteSets, TLC

\* ---------------------------------------------------------------- bounds
MaxBatch == 4
MaxEnv == 3
MaxNumLayers == 3

BatchSizes == 1..MaxBatch
EnvCounts == 1..MaxEnv
NumLayersValues == (0 - 1)..MaxNumLayers
NumHiddenValues == {64, 128}
NlstmValues == {1, 2, 128}
ImageShapes == {<<84, 84, 4>>, <<36, 36, 1>>}
ConvKwargs == {{}, {<<"pad", "SAME">>}}
ConvOnlyKwargs == {{}, {<<"padding", "VALID">>}}
ConvsArgs == {<<>>, <<<<16, 3, 1>>>>, <<<<8, 8, 4>>, <<16, 4, 2>>>>}

RecognizedNames == {"cnn", "cnn_small", "conv_only", "mlp", "lstm", "cnn_lstm", "cnn_lnlstm"}
UnrecognizedNames == {"", "bogus", "cn", "cnn_lstm2", "CNN", "cnn_"}
Names == RecognizedNames \cup UnrecognizedNames

VARIABLES lookup, net, result, conv_only_defaults
vars == <<lookup, net, result, conv_only_defaults>>

\* ------------------------------------------------------- tensor primitives
\* a dimension whose size is decided inside the framework's convolution
DYN == 0 - 1

Layer(op, scope, n, rf, stride, activ, init_scale, kw) ==
    [op |-> op, scope |-> scope, n |-> n, rf |-> rf, stride |-> stride,
     activ |-> activ, init_scale |-> init_scale, kw |-> kw]

NoTensor == [shape |-> <<>>, trace |-> <<>>]

RECURSIVE Prod(_)
Prod(s) == IF s = <<>> THEN 1 ELSE Head(s) * Prod(Tail(s))

FlatDim(shape) ==
    IF \E i \in 2..Len(shape) : shape[i] = DYN THEN DYN ELSE Prod(Tail(shape))

\* tf.cast(x, tf.float32) / 255.
cast_div255(x) ==
    [shape |-> x.shape,
     trace |-> Append(x.trace, Layer("cast_float32_div255", "", 0, 0, 0, "none", "", {}))]

\* tf.nn.relu applied to the output of the layer just built
relu(t) == [t EXCEPT !.trace[Len(t.trace)].activ = "relu"]

\* baselines.a2c.utils.conv
conv(x, scope, nf, rf, stride, init_scale, kw) ==
    [shape |-> <<x.shape[1], DYN, DYN, nf>>,
     trace |-> Append(x.trace, Layer("conv", scope, nf, rf, stride, "none", init_scale, kw))]

\* baselines.a2c.utils.conv_to_fc
conv_to_fc(x) ==
    [shape |-> <<x.shape[1], FlatDim(x.shape)>>,
     trace |-> Append(x.trace, Layer("conv_to_fc", "", 0, 0, 0, "none", "", {}))]

\* tf.layers.flatten
flatten(x) ==
    [shape |-> <<x.shape[1], FlatDim(x.shape)>>,
     trace |-> Append(x.trace, Layer("flatten", "", 0, 0, 0, "none", "", {}))]

\* baselines.a2c.utils.fc
fc(x, scope, nh, init_scale) ==
    [shape |-> <<x.shape[1], nh>>,
     trace |-> Append(x.trace, Layer("fc", scope, nh, 0, 0, "none", init_scale, {}))]

\* tensorflow.contrib.layers.convolution2d(..., activation_fn=tf.nn.relu)
convolution2d(x, num_outputs, kernel_size, stride, kw) ==
    [shape |-> <<x.shape[1], DYN, DYN, num_outputs>>,
     trace |-> Append(x.trace,
                  Layer("convolution2d", "convnet", num_outputs, kernel_size, stride,
                        "relu", "", kw))]

\* tf.placeholder(tf.float32, shape)
placeholder(shape) == [dtype |-> "float32", shape |-> shape]

\* np.zeros(shape, dtype=float) for a two-dimensional shape
np_zeros(shape) == [idx \in (1..shape[1]) \X (1..shape[2]) |-> 0]


\* ------------------------------------------------- closures and results
\* what a factory captures for its network_fn
Closure(kind, num_layers, num_hidden, nlstm, layer_norm, convs, conv_kwargs) ==
    [kind |-> kind, num_layers |-> num_layers, num_hidden |-> num_hidden,
     nlstm |-> nlstm, layer_norm |-> layer_norm, convs |-> convs,
     conv_kwargs |-> conv_kwargs]

NoClosure == Closure("", 0, 0, 0, FALSE, <<>>, {})

\* the second element of the pair a network_fn returns when it is None
NoneExtra ==
    [none |-> TRUE, keys |-> {}, S |-> placeholder(<<>>), M |-> placeholder(<<>>),
     state |-> NoTensor, initial_state |-> [idx \in {} |-> 0]]

Returned(out, extra, nbatch, nsteps, convs_after) ==
    [status |-> "returned", exc |-> "", out |-> out, extra |-> extra,
     nbatch |-> nbatch, nsteps |-> nsteps, convs_after |-> convs_after]

Raised(exc, nbatch, nsteps, convs_after) ==
    [status |-> "raised", exc |-> exc, out |-> NoTensor, extra |-> NoneExtra,
     nbatch |-> nbatch, nsteps |-> nsteps, convs_after |-> convs_after]


\* nature_cnn fed the unscaled images
nature_cnn_unscaled(unscaled_images, conv_kwargs) ==
    LET h  == relu(conv(unscaled_images, "c1", 32, 8, 4, "sqrt2", conv_kwargs))
        h2 == relu(conv(h, "c2", 64, 4, 2, "sqrt2", conv_kwargs))
        h3 == relu(conv(h2, "c3", 64, 3, 1, "sqrt2", conv_kwargs))
        h3f == conv_to_fc(h3)
    IN  relu(fc(h3f, "fc1", 512, "sqrt2"))

\* ----------------------------------------------------------- nature_cnn
nature_cnn(unscaled_images, conv_kwargs) ==
    LET scaled_images == cast_div255(unscaled_images)
        h  == relu(conv(scaled_images, "c1", 32, 8, 4, "sqrt2", conv_kwargs))
        h2 == relu(conv(h, "c2", 64, 4, 2, "sqrt2", conv_kwargs))
        h3 == relu(conv(h2, "c3", 64, 3, 1, "sqrt2", conv_kwargs))
        h3f == conv_to_fc(h3)
    IN  relu(fc(h3f, "fc1", 512, "sqrt2"))

\* ------------------------------------------------------------------ mlp
mlp(num_layers, num_hidden) ==
    Closure("mlp.network_fn", num_layers, num_hidden, 0, FALSE, <<>>, {})


\* hidden_layer_sizes = [64, 64]
hidden_layer_sizes(num_layers, num_hidden) == <<64, 64>>

\* activations = [tf.nn.relu, tf.nn.relu]
activations == <<"relu", "relu">>

\* 'mlp_fc{}'.format(i)
mlp_fc_scope(i) ==
    CASE i = 0 -> "mlp_fc0" [] i = 1 -> "mlp_fc1" [] i = 2 -> "mlp_fc2"
      [] i = 3 -> "mlp_fc3" [] OTHER -> "mlp_fc4"

\* for i in range(num_layers): h = activations[i](fc(h, ..., nh=hidden_layer_sizes[i]))
\* list indices are 0-based in the source and 1-based here
RECURSIVE mlp_layers(_, _, _, _)
mlp_layers(h, i, num_layers, sizes) ==
    IF i >= num_layers THEN [ok |-> TRUE, h |-> h]
    ELSE IF i + 1 > Len(activations) \/ i + 1 > Len(sizes) THEN [ok |-> FALSE, h |-> h]
    ELSE mlp_layers([fc(h, mlp_fc_scope(i), sizes[i + 1], "sqrt2")
                        EXCEPT !.trace[Len(h.trace) + 1].activ = activations[i + 1]],
                    i + 1, num_layers, sizes)

mlp_network_fn(c, X) ==
    LET sizes == hidden_layer_sizes(c.num_layers, c.num_hidden)
        r == mlp_layers(flatten(X), 0, c.num_layers, sizes)
    IN  IF r.ok THEN Returned(r.h, NoneExtra, 0, 0, <<>>)
        ELSE Raised("IndexError", 0, 0, <<>>)

\* ------------------------------------------------------ cnn, cnn_small
cnn(conv_kwargs) == Closure("cnn.network_fn", 0, 0, 0, FALSE, <<>>, conv_kwargs)

cnn_network_fn(c, X) == Returned(nature_cnn(X, c.conv_kwargs), NoneExtra, 0, 0, <<>>)

cnn_small(conv_kwargs) == Closure("cnn_small.network_fn", 0, 0, 0, FALSE, <<>>, conv_kwargs)

cnn_small_network_fn(c, X) ==
    LET h0 == cast_div255(X)
        h1 == relu(conv(h0, "c1", 8, 8, 4, "sqrt2", c.conv_kwargs))
        h2 == relu(conv(h1, "c2", 16, 4, 2, "sqrt2", c.conv_kwargs))
        h3 == conv_to_fc(h2)
        h4 == relu(fc(h3, "fc1", 128, "sqrt2"))
    IN  Returned(h4, NoneExtra, 0, 0, <<>>)


\* ------------------------------------------------------ lstm, cnn_lstm
\* a placeholder seen as a tensor that no layer produced
AsTensor(ph) == [shape |-> ph.shape, trace |-> <<>>]


\* nsteps rounded up instead of down
infer_nsteps_ceil(nbatch, nenv) == (nbatch + nenv - 1) \div nenv

\* nsteps = nbatch // nenv
infer_nsteps(nbatch, nenv) == nbatch \div nenv


\* a state placeholder holding the hidden state without the cell state
state_placeholder_half(nenv, nlstm) == placeholder(<<nenv, nlstm>>)

\* S = tf.placeholder(tf.float32, [nenv, 2*nlstm])
state_placeholder(nenv, nlstm) == placeholder(<<nenv, 2 * nlstm>>)

\* M = tf.placeholder(tf.float32, [nbatch])
mask_placeholder(nbatch) == placeholder(<<nbatch>>)

\* baselines.a2c.utils.batch_to_seq: the rows of h laid out as nenv sequences
\* of nsteps steps and cut into nsteps slices of nenv rows; the framework
\* rejects a layout that does not hold exactly the rows of h
batch_to_seq(h, nenv, nsteps) ==
    [ok |-> nenv * nsteps = h.shape[1],
     len |-> nsteps,
     elem |-> [shape |-> <<nenv>> \o (IF Len(h.shape) > 1 THEN Tail(h.shape) ELSE <<1>>),
               trace |-> Append(h.trace, Layer("batch_to_seq", "", nenv, 0, 0, "none", "", {}))]]

\* baselines.a2c.utils.lstm / lnlstm: the cell run over the slices, giving one
\* output slice of width nh per step and the new state, shaped like s
recurrent_cell(xs, ms, s, scope, nh) ==
    LET t == Append(xs.elem.trace, Layer(scope, scope, nh, 0, 0, "none", "", {}))
    IN  [h5 |-> [ok |-> xs.ok /\ ms.ok, len |-> xs.len,
                 elem |-> [shape |-> <<xs.elem.shape[1], nh>>, trace |-> t]],
         snew |-> [shape |-> s.shape, trace |-> t]]

\* baselines.a2c.utils.seq_to_batch: the slices merged back into a flat batch
seq_to_batch(h5) ==
    [shape |-> <<h5.len * h5.elem.shape[1], h5.elem.shape[2]>>,
     trace |-> Append(h5.elem.trace, Layer("seq_to_batch", "", 0, 0, 0, "none", "", {}))]


\* a state dictionary that leaves the mask out
StateDict_nomask(S, M, snew, initial_state) ==
    [none |-> FALSE, keys |-> {"S", "state", "initial_state"},
     S |-> S, M |-> placeholder(<<>>), state |-> snew, initial_state |-> initial_state]

\* {'S':S, 'M':M, 'state':snew, 'initial_state':initial_state}
StateDict(S, M, snew, initial_state) ==
    [none |-> FALSE, keys |-> {"S", "M", "state", "initial_state"},
     S |-> S, M |-> M, state |-> snew, initial_state |-> initial_state]

lstm(nlstm, layer_norm) ==
    Closure("lstm.network_fn", 0, 0, nlstm, layer_norm, <<>>, {})

lstm_network_fn(c, X, nenv) ==
    LET nbatch == X.shape[1]
        nsteps == infer_nsteps(nbatch, nenv)
        h == flatten(X)
        M == mask_placeholder(nbatch)
        S == state_placeholder(nenv, c.nlstm)
        xs == batch_to_seq(h, nenv, nsteps)
        ms == batch_to_seq(AsTensor(M), nenv, nsteps)
        cell == IF c.layer_norm
                THEN recurrent_cell(xs, ms, S, "lnlstm", c.nlstm)
                ELSE recurrent_cell(xs, ms, S, "lstm", c.nlstm)
        hout == seq_to_batch(cell.h5)
        initial_state == np_zeros(S.shape)
    IN  IF cell.h5.ok
        THEN Returned(hout, StateDict(S, M, cell.snew, initial_state), nbatch, nsteps, <<>>)
        ELSE Raised("ValueError(shape)", nbatch, nsteps, <<>>)

cnn_lstm(nlstm, layer_norm, conv_kwargs) ==
    Closure("cnn_lstm.network_fn", 0, 0, nlstm, layer_norm, <<>>, conv_kwargs)

cnn_lstm_network_fn(c, X, nenv) ==
    LET nbatch == X.shape[1]
        nsteps == infer_nsteps(nbatch, nenv)
        h == nature_cnn(X, c.conv_kwargs)
        M == mask_placeholder(nbatch)
        S == state_placeholder(nenv, c.nlstm)
        xs == batch_to_seq(h, nenv, nsteps)
        ms == batch_to_seq(AsTensor(M), nenv, nsteps)
        cell == IF c.layer_norm
                THEN recurrent_cell(xs, ms, S, "lnlstm", c.nlstm)
                ELSE recurrent_cell(xs, ms, S, "lstm", c.nlstm)
        hout == seq_to_batch(cell.h5)
        initial_state == np_zeros(S.shape)
    IN  IF cell.h5.ok
        THEN Returned(hout, StateDict(S, M, cell.snew, initial_state), nbatch, nsteps, <<>>)
        ELSE Raised("ValueError(shape)", nbatch, nsteps, <<>>)


\* cnn_lnlstm that forgets to turn layer normalization on
cnn_lnlstm_plain(nlstm, conv_kwargs) == cnn_lstm(nlstm, FALSE, conv_kwargs)

cnn_lnlstm(nlstm, conv_kwargs) == cnn_lstm(nlstm, TRUE, conv_kwargs)

\* ------------------------------------------------------------ conv_only

\* a two-layer default list
DefaultConvs_two == <<<<32, 8, 4>>, <<64, 4, 2>>>>

\* convs=[(32, 8, 4), (64, 4, 2), (64, 3, 1)], the list object shared by every
\* conv_only() call that leaves convs out
DefaultConvs == <<<<32, 8, 4>>, <<64, 4, 2>>, <<64, 3, 1>>>>

conv_only(convs, conv_kwargs) ==
    Closure("conv_only.network_fn", 0, 0, 0, FALSE, convs, conv_kwargs)

\* for num_outputs, kernel_size, stride in convs: out = layers.convolution2d(out, ...)
RECURSIVE conv_only_layers(_, _, _, _)
conv_only_layers(out, convs, i, kw) ==
    IF i > Len(convs) THEN out
    ELSE conv_only_layers(convolution2d(out, convs[i][1], convs[i][2], convs[i][3], kw),
                          convs, i + 1, kw)


\* a network function that pops the triples off the list as it applies them
conv_only_network_fn_popping(c, X) ==
    Returned(conv_only_layers(cast_div255(X), c.convs, 1, c.conv_kwargs),
             NoneExtra, 0, 0, <<>>)

\* the last field is the convs list as the call leaves it
conv_only_network_fn(c, X) ==
    Returned(conv_only_layers(cast_div255(X), c.convs, 1, c.conv_kwargs),
             NoneExtra, 0, 0, c.convs)

\* -------------------------------------------------- get_network_builder
Lookup(name, raised, ret, message) ==
    [called |-> TRUE, name |-> name, raised |-> raised, ret |-> ret, message |-> message]

NoLookup == [called |-> FALSE, name |-> "", raised |-> FALSE, ret |-> "", message |-> <<>>]


\* get_network_builder with the two cnn-lstm branches returning each other's factory
get_network_builder_swapped(name) ==
    IF name = "cnn" THEN Lookup(name, FALSE, "cnn", <<>>)
    ELSE IF name = "cnn_small" THEN Lookup(name, FALSE, "cnn_small", <<>>)
    ELSE IF name = "conv_only" THEN Lookup(name, FALSE, "conv_only", <<>>)
    ELSE IF name = "mlp" THEN Lookup(name, FALSE, "mlp", <<>>)
    ELSE IF name = "lstm" THEN Lookup(name, FALSE, "lstm", <<>>)
    ELSE IF name = "cnn_lstm" THEN Lookup(name, FALSE, "cnn_lnlstm", <<>>)
    ELSE IF name = "cnn_lnlstm" THEN Lookup(name, FALSE, "cnn_lstm", <<>>)
    ELSE Lookup(name, TRUE, "", <<"ValueError", "Unknown network type: ", name>>)

\* get_network_builder falling back to mlp instead of raising
get_network_builder_fallback(name) ==
    IF name = "cnn" THEN Lookup(name, FALSE, "cnn", <<>>)
    ELSE IF name = "cnn_small" THEN Lookup(name, FALSE, "cnn_small", <<>>)
    ELSE IF name = "conv_only" THEN Lookup(name, FALSE, "conv_only", <<>>)
    ELSE IF name = "lstm" THEN Lookup(name, FALSE, "lstm", <<>>)
    ELSE IF name = "cnn_lstm" THEN Lookup(name, FALSE, "cnn_lstm", <<>>)
    ELSE IF name = "cnn_lnlstm" THEN Lookup(name, FALSE, "cnn_lnlstm", <<>>)
    ELSE Lookup(name, FALSE, "mlp", <<>>)

\* a factory function is identified by the name the module binds it to
get_network_builder(name) ==
    IF name = "cnn" THEN Lookup(name, FALSE, "cnn", <<>>)
    ELSE IF name = "cnn_small" THEN Lookup(name, FALSE, "cnn_small", <<>>)
    ELSE IF name = "conv_only" THEN Lookup(name, FALSE, "conv_only", <<>>)
    ELSE IF name = "mlp" THEN Lookup(name, FALSE, "mlp", <<>>)
    ELSE IF name = "lstm" THEN Lookup(name, FALSE, "lstm", <<>>)
    ELSE IF name = "cnn_lstm" THEN Lookup(name, FALSE, "cnn_lstm", <<>>)
    ELSE IF name = "cnn_lnlstm" THEN Lookup(name, FALSE, "cnn_lnlstm", <<>>)
    ELSE Lookup(name, TRUE, "", <<"ValueError", "Unknown network type: ", name>>)

\* ---------------------------------------------------------------- state
\* lookup: the outcome of the latest get_network_builder call
\* net: the latest network_fn a factory returned, with the factory that built it
\* result: the outcome of the latest call of net, with its arguments (none while
\*   the network_fn a factory has just returned is still uncalled)
\* conv_only_defaults: the default convs list held by the conv_only function
Net(factory, default_convs, fn) ==
    [factory |-> factory, default_convs |-> default_convs, fn |-> fn]

NoNet == Net("", FALSE, NoClosure)

Call(n, X, nenv, r) == [called |-> TRUE, net |-> n, X |-> X, nenv |-> nenv, r |-> r]

NoResult ==
    [called |-> FALSE, net |-> NoNet, X |-> NoTensor, nenv |-> 0,
     r |-> Raised("", 0, 0, <<>>)]

Inputs == {[shape |-> <<n>> \o s, trace |-> <<>>] : n \in BatchSizes, s \in ImageShapes}

Init ==
    /\ lookup = NoLookup
    /\ net = NoNet
    /\ result = NoResult
    /\ conv_only_defaults = DefaultConvs

GetNetworkBuilder(name) ==
    /\ lookup' = get_network_builder(name)
    /\ UNCHANGED <<net, result, conv_only_defaults>>

Builder(f) == lookup.called /\ ~lookup.raised /\ lookup.ret = f

CallMlp(num_layers, num_hidden) ==
    /\ Builder("mlp")
    /\ net' = Net("mlp", FALSE, mlp(num_layers, num_hidden))
    /\ result' = NoResult
    /\ UNCHANGED <<lookup, conv_only_defaults>>

CallCnn(kw) ==
    /\ Builder("cnn")
    /\ net' = Net("cnn", FALSE, cnn(kw))
    /\ result' = NoResult
    /\ UNCHANGED <<lookup, conv_only_defaults>>

CallCnnSmall(kw) ==
    /\ Builder("cnn_small")
    /\ net' = Net("cnn_small", FALSE, cnn_small(kw))
    /\ result' = NoResult
    /\ UNCHANGED <<lookup, conv_only_defaults>>

CallLstm(nlstm, layer_norm) ==
    /\ Builder("lstm")
    /\ net' = Net("lstm", FALSE, lstm(nlstm, layer_norm))
    /\ result' = NoResult
    /\ UNCHANGED <<lookup, conv_only_defaults>>

CallCnnLstm(nlstm, layer_norm, kw) ==
    /\ Builder("cnn_lstm")
    /\ net' = Net("cnn_lstm", FALSE, cnn_lstm(nlstm, layer_norm, kw))
    /\ result' = NoResult
    /\ UNCHANGED <<lookup, conv_only_defaults>>

CallCnnLnlstm(nlstm, kw) ==
    /\ Builder("cnn_lnlstm")
    /\ net' = Net("cnn_lnlstm", FALSE, cnn_lnlstm(nlstm, kw))
    /\ result' = NoResult
    /\ UNCHANGED <<lookup, conv_only_defaults>>

\* conv_only(**conv_kwargs): convs is the shared default list
CallConvOnlyDefault(kw) ==
    /\ Builder("conv_only")
    /\ net' = Net("conv_only", TRUE, conv_only(conv_only_defaults, kw))
    /\ result' = NoResult
    /\ UNCHANGED <<lookup, conv_only_defaults>>

CallConvOnly(convs, kw) ==
    /\ Builder("conv_only")
    /\ net' = Net("conv_only", FALSE, conv_only(convs, kw))
    /\ result' = NoResult
    /\ UNCHANGED <<lookup, conv_only_defaults>>

InvokeMlp(X) ==
    /\ net.fn.kind = "mlp.network_fn"
    /\ result' = Call(net, X, 0, mlp_network_fn(net.fn, X))
    /\ UNCHANGED <<lookup, net, conv_only_defaults>>

InvokeCnn(X) ==
    /\ net.fn.kind = "cnn.network_fn"
    /\ result' = Call(net, X, 0, cnn_network_fn(net.fn, X))
    /\ UNCHANGED <<lookup, net, conv_only_defaults>>

InvokeCnnSmall(X) ==
    /\ net.fn.kind = "cnn_small.network_fn"
    /\ result' = Call(net, X, 0, cnn_small_network_fn(net.fn, X))
    /\ UNCHANGED <<lookup, net, conv_only_defaults>>

InvokeLstm(X, nenv) ==
    /\ net.fn.kind = "lstm.network_fn"
    /\ result' = Call(net, X, nenv, lstm_network_fn(net.fn, X, nenv))
    /\ UNCHANGED <<lookup, net, conv_only_defaults>>

InvokeCnnLstm(X, nenv) ==
    /\ net.fn.kind = "cnn_lstm.network_fn"
    /\ result' = Call(net, X, nenv, cnn_lstm_network_fn(net.fn, X, nenv))
    /\ UNCHANGED <<lookup, net, conv_only_defaults>>

\* the closure holds a reference to its convs list: what the call does to the
\* list shows in the closure and, for the default list, in every later default
InvokeConvOnly(X) ==
    /\ net.fn.kind = "conv_only.network_fn"
    /\ LET r == conv_only_network_fn(net.fn, X)
       IN  /\ result' = Call(net, X, 0, r)
           /\ net' = [net EXCEPT !.fn.convs = r.convs_after]
           /\ conv_only_defaults' =
                  IF net.default_convs THEN r.convs_after ELSE conv_only_defaults
    /\ UNCHANGED lookup

Next ==
    \/ \E name \in Names : GetNetworkBuilder(name)
    \/ \E nl \in NumLayersValues, nh \in NumHiddenValues : CallMlp(nl, nh)
    \/ \E kw \in ConvKwargs : CallCnn(kw)
    \/ \E kw \in ConvKwargs : CallCnnSmall(kw)
    \/ \E n \in NlstmValues, ln \in BOOLEAN : CallLstm(n, ln)
    \/ \E n \in NlstmValues, ln \in BOOLEAN, kw \in ConvKwargs : CallCnnLstm(n, ln, kw)
    \/ \E n \in NlstmValues, kw \in ConvKwargs : CallCnnLnlstm(n, kw)
    \/ \E kw \in ConvOnlyKwargs : CallConvOnlyDefault(kw)
    \/ \E convs \in ConvsArgs, kw \in ConvOnlyKwargs : CallConvOnly(convs, kw)
    \/ \E X \in Inputs : InvokeMlp(X)
    \/ \E X \in Inputs : InvokeCnn(X)
    \/ \E X \in Inputs : InvokeCnnSmall(X)
    \/ \E X \in Inputs, nenv \in EnvCounts : InvokeLstm(X, nenv)
    \/ \E X \in Inputs, nenv \in EnvCounts : InvokeCnnLstm(X, nenv)
    \/ \E X \in Inputs : InvokeConvOnly(X)

Spec == Init /\ [][Next]_vars


\* ------------------------------------------------------------ properties
N == result.X.shape[1]
R == result.r
Made(f) == result.called /\ result.net.factory = f
Recurrent == result.called /\ result.net.factory \in {"lstm", "cnn_lstm", "cnn_lnlstm"}

ConvLayers(t) == SelectSeq(t.trace, LAMBDA l : l.op \in {"conv", "convolution2d"})
DenseLayers(t) == SelectSeq(t.trace, LAMBDA l : l.op = "fc")
Triples(t) ==
    [i \in 1..Len(ConvLayers(t)) |->
        <<ConvLayers(t)[i].n, ConvLayers(t)[i].rf, ConvLayers(t)[i].stride>>]
Rescale == [op |-> "cast_float32_div255", scope |-> "", n |-> 0, rf |-> 0, stride |-> 0,
            activ |-> "none", init_scale |-> "", kw |-> {}]

\* C1: looking up one of the seven recognized names returns, without error,
\* the factory of that same name, whatever lookups, factory calls and
\* network_fn calls came before.
C1_LookupReturnsNamedFactory ==
    \A n \in {"cnn", "cnn_small", "conv_only", "mlp", "lstm", "cnn_lstm", "cnn_lnlstm"} :
        (lookup.called /\ lookup.name = n) => (~lookup.raised /\ lookup.ret = n)

C1_Witness ==
    /\ lookup.called /\ lookup.name = "cnn_lstm" /\ lookup.ret = "cnn_lstm"
    /\ Made("mlp") /\ R.status = "returned"

\* C2: looking up any other string (a prefix, a superset, a case variant, the
\* empty string) raises the unknown-network-type ValueError and returns no
\* factory.
C2_UnknownNameRaises ==
    (lookup.called /\ lookup.name \notin
        {"cnn", "cnn_small", "conv_only", "mlp", "lstm", "cnn_lstm", "cnn_lnlstm"})
    => /\ lookup.raised
       /\ lookup.ret = ""
       /\ lookup.message = <<"ValueError", "Unknown network type: ", lookup.name>>

C2_Witness == lookup.called /\ lookup.name = "cnn_lstm2" /\ lookup.raised

\* C3: whatever num_layers and num_hidden were requested, the mlp network
\* function succeeds with an [N, 64] output built from exactly two dense
\* layers of width 64 with ReLU, and None state.  Stated here for the
\* requests of two or more layers, where the claim and the documented meaning
\* of num_layers both promise a network: the loop still runs
\* range(num_layers) over the hard-coded two-element lists, so the call
\* raises IndexError as soon as num_layers exceeds 2.
C3_MlpSucceedsWithTwoLayers ==
    (Made("mlp") /\ result.net.fn.num_layers >= 2) =>
        /\ R.status = "returned"
        /\ R.extra.none
        /\ R.out.shape = <<N, 64>>
        /\ Len(DenseLayers(R.out)) = 2
        /\ \A i \in 1..Len(DenseLayers(R.out)) :
               DenseLayers(R.out)[i].n = 64 /\ DenseLayers(R.out)[i].activ = "relu"

\* C4: the state dictionary returned by an lstm or cnn_lstm network function
\* has a state placeholder S of shape [nenv, 2*nlstm] and an initial_state
\* array of that same shape, every element zero.
C4_StateShapeAndZeros ==
    (result.called /\ result.net.fn.kind \in {"lstm.network_fn", "cnn_lstm.network_fn"}
        /\ R.status = "returned")
    => LET nlstm == result.net.fn.nlstm
           nenv == result.nenv
       IN  /\ ~R.extra.none
           /\ R.extra.S.shape = <<nenv, 2 * nlstm>>
           /\ DOMAIN R.extra.initial_state = (1..nenv) \X (1..(2 * nlstm))
           /\ \A idx \in DOMAIN R.extra.initial_state : R.extra.initial_state[idx] = 0

C4_Witness ==
    /\ Made("lstm") /\ result.net.fn.nlstm = 128 /\ result.nenv = 2
    /\ R.status = "returned" /\ R.extra.S.shape = <<2, 256>>

\* C5: a cnn network function returns an [N, 512] output and None state, the
\* output produced by cast-to-float and division by 255, then conv(32, 8, 4),
\* conv(64, 4, 2), conv(64, 3, 1), flatten and dense(512), each layer followed
\* by ReLU.
C5_CnnOutput ==
    Made("cnn") =>
        LET kw == result.net.fn.conv_kwargs
        IN  /\ R.status = "returned"
            /\ R.extra.none
            /\ R.out.shape = <<N, 512>>
            /\ Len(R.out.trace) = 6
            /\ R.out.trace[1] = Rescale
            /\ Triples(R.out) = <<<<32, 8, 4>>, <<64, 4, 2>>, <<64, 3, 1>>>>
            /\ \A i \in 2..4 : /\ R.out.trace[i].op = "conv"
                               /\ R.out.trace[i].activ = "relu"
                               /\ R.out.trace[i].kw = kw
            /\ R.out.trace[5].op = "conv_to_fc"
            /\ R.out.trace[6].op = "fc" /\ R.out.trace[6].n = 512
            /\ R.out.trace[6].activ = "relu"

C5_Witness == Made("cnn") /\ R.status = "returned" /\ R.out.shape = <<3, 512>>

\* C6: cnn_lnlstm(nlstm, **kw) builds the network function that
\* cnn_lstm(nlstm, layer_norm=True, **kw) builds, so a call gives the same
\* output and state dictionary, and the cell is the layer-normalized one.
C6_LnlstmIsCnnLstmWithLayerNorm ==
    /\ \A n \in NlstmValues, kw \in ConvKwargs : cnn_lnlstm(n, kw) = cnn_lstm(n, TRUE, kw)
    /\ net.factory = "cnn_lnlstm" =>
           (net.fn.kind = "cnn_lstm.network_fn" /\ net.fn.layer_norm)
    /\ Made("cnn_lnlstm") =>
           /\ R = cnn_lstm_network_fn(
                      cnn_lstm(result.net.fn.nlstm, TRUE, result.net.fn.conv_kwargs),
                      result.X, result.nenv)
           /\ R.status = "returned" =>
                  /\ \E i \in 1..Len(R.out.trace) : R.out.trace[i].op = "lnlstm"
                  /\ \A i \in 1..Len(R.out.trace) : R.out.trace[i].op # "lstm"

C6_Witness ==
    /\ Made("cnn_lnlstm") /\ R.status = "returned" /\ result.net.fn.layer_norm
    /\ R.out.shape = <<N, result.net.fn.nlstm>>

\* C7: what a network function returns is a pair (output, extra): extra is
\* None for cnn, cnn_small, conv_only and mlp; for lstm, cnn_lstm and
\* cnn_lnlstm it is a dictionary with exactly the keys S, M, state and
\* initial_state, M being a placeholder whose length is the batch size.
C7_ExtraShape ==
    /\ (result.called /\ result.net.factory \in {"cnn", "cnn_small", "conv_only"})
           => R.status = "returned"
    /\ (Recurrent /\ result.nenv = 1) => R.status = "returned"
    /\ (result.called /\ R.status = "returned") =>
        /\ result.net.factory \in {"cnn", "cnn_small", "conv_only", "mlp"}
               => (R.extra.none /\ R.extra.keys = {})
        /\ result.net.factory \in {"lstm", "cnn_lstm", "cnn_lnlstm"}
               => /\ ~R.extra.none
                  /\ R.extra.keys = {"S", "M", "state", "initial_state"}
                  /\ R.extra.M = [dtype |-> "float32", shape |-> <<N>>]
                  /\ R.extra.S.dtype = "float32"
                  /\ R.extra.state.shape = R.extra.S.shape

C7_Witness ==
    /\ Made("cnn_lstm") /\ R.status = "returned" /\ N = 4
    /\ R.extra.keys = {"S", "M", "state", "initial_state"} /\ R.extra.M.shape = <<4>>

\* C8 as stated: cnn_small and conv_only, each with its default parameters,
\* build exactly two convolutional layers.
C8_Original ==
    (result.called /\ (result.net.factory = "cnn_small"
                        \/ (result.net.factory = "conv_only" /\ result.net.default_convs)))
    => Len(ConvLayers(R.out)) = 2

\* C8 amended: only cnn_small is a two-layer variant and only conv_only is
\* configurable.  cnn_small always builds the two convolutions (8, 8, 4) and
\* (16, 4, 2) followed by a dense layer of width 128; conv_only builds one
\* convolution per triple of its list, in order, which with its default list
\* is the three convolutions (32, 8, 4), (64, 4, 2), (64, 3, 1).
C8_SmallFixedConvOnlyConfigurable ==
    /\ Made("cnn_small") =>
           /\ Triples(R.out) = <<<<8, 8, 4>>, <<16, 4, 2>>>>
           /\ Len(DenseLayers(R.out)) = 1 /\ DenseLayers(R.out)[1].n = 128
           /\ R.out.shape = <<N, 128>>
    /\ Made("conv_only") =>
           /\ Triples(R.out) = result.net.fn.convs
           /\ result.net.default_convs =>
                  Triples(R.out) = <<<<32, 8, 4>>, <<64, 4, 2>>, <<64, 3, 1>>>>

C8_Witness ==
    /\ Made("conv_only") /\ result.net.default_convs /\ Len(ConvLayers(R.out)) = 3

\* C9: conv_only(convs)(X) applies len(convs) convolutions in list order, the
\* i-th with the i-th triple and ReLU, to the input cast to float and divided
\* by 255, and returns the last convolution's output with None state and no
\* dense layer; with an empty list it returns the rescaled input; and the call
\* leaves the convs list, so also the shared default list, as it was.
C9_ConvOnlyAppliesListInOrder ==
    /\ conv_only_defaults = <<<<32, 8, 4>>, <<64, 4, 2>>, <<64, 3, 1>>>>
    /\ Made("conv_only") =>
        LET convs == result.net.fn.convs
            kw == result.net.fn.conv_kwargs
        IN  /\ R.status = "returned"
            /\ R.extra.none
            /\ Len(R.out.trace) = 1 + Len(convs)
            /\ R.out.trace[1] = Rescale
            /\ \A i \in 1..Len(convs) :
                   R.out.trace[i + 1] =
                       [op |-> "convolution2d", scope |-> "convnet", n |-> convs[i][1],
                        rf |-> convs[i][2], stride |-> convs[i][3], activ |-> "relu",
                        init_scale |-> "", kw |-> kw]
            /\ DenseLayers(R.out) = <<>>
            /\ convs # <<>> => R.out.shape[4] = convs[Len(convs)][1]
            /\ convs = <<>> => R.out.shape = result.X.shape
            /\ R.convs_after = convs
            /\ net.fn.convs = convs
            /\ result.net.default_convs => convs = conv_only_defaults

C9_Witness ==
    /\ Made("conv_only") /\ ~result.net.default_convs
    /\ result.net.fn.convs = <<<<8, 8, 4>>, <<16, 4, 2>>>>
    /\ Len(R.out.trace) = 3 /\ R.out.shape[4] = 16

\* C10 as stated: for every nbatch >= 1 and nenv >= 1 the inferred nsteps
\* partitions the batch exactly: nenv * nsteps = nbatch, nsteps is never 0,
\* and the re-merged batch has nbatch rows, the length of the mask M.
C10_Original ==
    Recurrent =>
        /\ result.nenv * R.nsteps = R.nbatch
        /\ R.nsteps # 0
        /\ R.status = "returned"
        /\ R.out.shape[1] = R.nbatch
        /\ R.extra.M.shape = <<R.nbatch>>

\* C10 amended: nsteps is the floor of nbatch / nenv.  When nenv divides
\* nbatch the partition is exact: nenv * nsteps = nbatch, nsteps >= 1, and the
\* re-merged batch has nbatch rows, the length of the mask M.  Otherwise
\* nenv * nsteps < nbatch (the split cannot hold nbatch mod nenv rows), and
\* nsteps is 0 when nbatch < nenv.
C10_StepsAreFloorOfBatchOverEnv ==
    Recurrent =>
        LET nb == R.nbatch
            ns == R.nsteps
            ne == result.nenv
        IN  /\ nb = N
            /\ ne * ns <= nb /\ nb < ne * (ns + 1)
            /\ nb % ne = 0 =>
                   /\ ne * ns = nb /\ ns >= 1
                   /\ R.status = "returned"
                   /\ R.out.shape[1] = nb
                   /\ R.extra.M.shape = <<nb>>
            /\ nb % ne # 0 => ne * ns < nb
            /\ nb < ne => ns = 0

C10_Witness ==
    /\ Recurrent /\ R.nbatch = 4 /\ result.nenv = 2 /\ R.nsteps = 2
    /\ R.status = "returned" /\ R.out.shape[1] = 4

====
